---- MODULE Spec2Model ----
(***************************************************************************)
(* Model of HST_Sextractor_new.py: the catalog cleaning pipeline           *)
(* GalaxyCatalog.generate_catalog and its stages.                          *)
(*                                                                         *)
(* Representation.                                                         *)
(*  - A text file is a sequence of lines; a line is a pair <<c, payload>>  *)
(*    whose first component is the line's first character (line[0] in the  *)
(*    source, line[1] here): "#" for a header/comment line, " " for a data *)
(*    row, whose payload is the record of the row's columns.               *)
(*  - Float columns are fixed-point numbers in tenths (X_IMAGE = 30005     *)
(*    stands for 3000.5); XMIN/XMAX/YMIN/YMAX and NUMBER are integers, as  *)
(*    SExtractor writes them.  Columns no stage reads (ALPHA_SKY,          *)
(*    DELTA_SKY, FLAGS, CLASS_STAR, FLUX_RADIUS) are carried verbatim by   *)
(*    the source and are left out of the row records.                      *)
(*  - An uncaught Python exception ends the run: pc = "error", exc names   *)
(*    the exception.                                                       *)
(***************************************************************************)
EXTENDS Integers, Sequences, FiniteSets, TLC

VARIABLES
    pc,                  \* position of the run: the stage about to execute
    exc,                 \* the uncaught exception that ended the run, or "none"
    disk,                \* file name -> contents (sequence of lines), NoFile if absent
    image,               \* [x_dim, y_dim]: NAXIS1, NAXIS2 of self.file
    enlarge,             \* make_segmentation_map's dilation margin argument
    filter,              \* self.filter
    catalog_vertex_file, \* self.catalog_vertex_file: None or a file name
    star_galaxy_weights, \* the four classification boundary parameters
    trace,               \* the operations invoked so far, in order
    delete_numbers,      \* diffraction_mask_cleanup's list of identifiers to delete
    current_catalog,     \* manual_mask_catalogs: local current_catalog
    x_vertices,          \* manual_mask_catalogs: local x_vertices
    y_vertices,          \* manual_mask_catalogs: local y_vertices
    line_no,             \* manual_mask_catalogs: lines of the file consumed so far
    calls                \* manual_mask invocations made: <<catalog, x_vertices, y_vertices>>

vars == <<pc, exc, disk, image, enlarge, filter, catalog_vertex_file,
          star_galaxy_weights, trace, delete_numbers,
          current_catalog, x_vertices, y_vertices, line_no, calls>>

manual_vars == <<current_catalog, x_vertices, y_vertices, line_no, calls>>

None == "None"
NoFile == << <<"absent">> >>

(***************************************************************************)
(* Bounds of the model.                                                    *)
(***************************************************************************)
MaxBright == 1
MaxFaint == 2
MaxLines == 3
MaxDim == 6
MaxEnlarge == 2
MaxSegRows == 2
MaxEdgeRows == 2
MaxClassRows == 3
MaxSpecLines == 5

(***************************************************************************)
(* Generic sequence helpers.                                               *)
(***************************************************************************)
Range(s) == {s[i] : i \in 1..Len(s)}

\* All sequences of pairwise distinct elements of S, of length 0..n.
RECURSIVE DistinctSeqs(_, _)
DistinctSeqs(S, n) ==
    IF n = 0 THEN {<< >>}
    ELSE LET shorter == DistinctSeqs(S, n - 1)
         IN  shorter \cup UNION {{Append(s, e) : e \in S \ Range(s)} :
                                     s \in {t \in shorter : Len(t) = n - 1}}

\* All sequences over S of length 0..n.
RECURSIVE SeqsUpTo(_, _)
SeqsUpTo(S, n) ==
    IF n = 0 THEN {<< >>}
    ELSE LET shorter == SeqsUpTo(S, n - 1)
         IN  shorter \cup {Append(s, e) : s \in {t \in shorter : Len(t) = n - 1}, e \in S}

(***************************************************************************)
(* Catalog files.                                                          *)
(***************************************************************************)
\* The columns of output_params that the stages read.
output_params == <<"NUMBER", "X_IMAGE", "Y_IMAGE", "A_IMAGE", "B_IMAGE",
                   "XMIN_IMAGE", "XMAX_IMAGE", "YMIN_IMAGE", "YMAX_IMAGE",
                   "MU_MAX", "MAG_AUTO", "FLUX_AUTO", "FLUXERR_AUTO">>

\* One detection as SExtractor measures it (NUMBER is assigned per catalog).
Obj(x, y, a, b, xmin, xmax, ymin, ymax, mu, mag, flux, fluxerr) ==
    [NUMBER |-> 0, X_IMAGE |-> x, Y_IMAGE |-> y, A_IMAGE |-> a, B_IMAGE |-> b,
     XMIN_IMAGE |-> xmin, XMAX_IMAGE |-> xmax, YMIN_IMAGE |-> ymin, YMAX_IMAGE |-> ymax,
     MU_MAX |-> mu, MAG_AUTO |-> mag, FLUX_AUTO |-> flux, FLUXERR_AUTO |-> fluxerr]

IsHeaderLine(line) == line[1] = "#"
IsDataLine(line) == line[1] # "#"

HeaderOf(columns) == [i \in 1..Len(columns) |-> <<"#", columns[i]>>]
RowLines(rows) == [i \in 1..Len(rows) |-> <<" ", rows[i]>>]

\* The catalog file the detection engine writes for the detections objs:
\* one header line per column, then the rows numbered 1..N.
run_sextractor(objs) ==
    HeaderOf(output_params) \o
    RowLines([i \in 1..Len(objs) |-> [objs[i] EXCEPT !.NUMBER = i]])

\* asciidata.open: the header lines and the data rows of a file.
asciidata_open(file) ==
    LET data == SelectSeq(file, IsDataLine)
    IN  [header |-> SelectSeq(file, IsHeaderLine),
         rows   |-> [i \in 1..Len(data) |-> data[i][2]]]

\* writeto of a table opened from a file: header, then rows.
writeto(header, rows) == header \o RowLines(rows)

\* "Get rid of empty rows": a table made by asciidata.create holds an empty
\* row (None in column 0) wherever nothing was copied; rows are deleted until
\* none is empty.  A slot is << >> (empty) or <<row>>.
delete_empty_rows(new_table) ==
    LET kept == SelectSeq(new_table, LAMBDA slot : Len(slot) > 0)
    IN  [i \in 1..Len(kept) |-> kept[i][1]]

(***************************************************************************)
(* Segmentation filter (make_segmentation_map,                             *)
(* filter_cat_with_segmentation_map).                                      *)
(***************************************************************************)
\* numpy indexing of an axis of length n: i is valid when -n <= i < n, and a
\* negative index counts from the end of the axis.
ValidIndex(i, n) == -n <= i /\ i < n
NormIndex(i, n) == IF i < 0 THEN i + n ELSE i

\* Python's range(lo, hi).
PyRange(lo, hi) == lo..(hi - 1)

\* int() of a fixed-point float (tenths): truncation toward zero, which is
\* how the numpy of the source's time indexes an array with a float.
TruncTenths(v) == IF v >= 0 THEN v \div 10 ELSE -((-v) \div 10)

\* The cells one bright record switches to 1 in an array of shape
\* (x_dim, y_dim) indexed as [y, x]: the first index takes y, the second x;
\* an index the array rejects raises and is skipped, a negative one in range
\* is accepted and wraps.  The cells are rows \X cols.
segmentation_box(row, x_dim, y_dim, margin) ==
    [rows |-> {NormIndex(y, x_dim) :
                 y \in {v \in PyRange(row.YMIN_IMAGE - margin, row.YMAX_IMAGE + margin) :
                          ValidIndex(v, x_dim)}},
     cols |-> {NormIndex(x, y_dim) :
                 x \in {v \in PyRange(row.XMIN_IMAGE - margin, row.XMAX_IMAGE + margin) :
                          ValidIndex(v, y_dim)}}]

\* The array written to the segmentation map file: its shape and, per bright
\* record, the block of cells set to 1.
segmentation_map_array(rows, x_dim, y_dim, margin) ==
    [shape |-> <<x_dim, y_dim>>,
     boxes |-> [j \in 1..Len(rows) |-> segmentation_box(rows[j], x_dim, y_dim, margin)]]

\* data[i0, i1] of a segmentation map (both indexes valid).
SegCell(data, i0, i1) ==
    IF \E j \in 1..Len(data.boxes) :
          /\ NormIndex(i0, data.shape[1]) \in data.boxes[j].rows
          /\ NormIndex(i1, data.shape[2]) \in data.boxes[j].cols
    THEN 1 ELSE 0

\* data[y_center, x_center] raises IndexError for this faint row.
CentroidOutOfBounds(data, row) ==
    \/ ~ValidIndex(TruncTenths(row.Y_IMAGE), data.shape[1])
    \/ ~ValidIndex(TruncTenths(row.X_IMAGE), data.shape[2])

\* The rows filter_cat_with_segmentation_map writes: the faint rows whose
\* centroid cell is 0, compacted.
filter_rows(data, rows) ==
    delete_empty_rows(
        [j \in 1..Len(rows) |->
            IF SegCell(data, TruncTenths(rows[j].Y_IMAGE), TruncTenths(rows[j].X_IMAGE)) = 0
            THEN <<rows[j]>> ELSE << >>])

(***************************************************************************)
(* Merge and renumber.                                                     *)
(***************************************************************************)
\* merge without the test of the line's first character.
merge_lines_unfiltered(bright_cat, faint_cat) == bright_cat \o faint_cat

\* The lines merge writes: every line of the bright catalog, then the lines
\* of the filtered faint catalog whose first character is not "#".
merge_lines(bright_cat, faint_cat) ==
    bright_cat \o SelectSeq(faint_cat, LAMBDA line : line[1] # "#")

\* cleanutils.renumber: NUMBER becomes 1..N in row order, file rewritten in place.
renumber(file) ==
    LET t == asciidata_open(file)
    IN  writeto(t.header, [i \in 1..Len(t.rows) |-> [t.rows[i] EXCEPT !.NUMBER = i]])

(***************************************************************************)
(* Stage actions of generate_catalog.                                      *)
(***************************************************************************)
Raise(e) == pc' = "error" /\ exc' = e

make_segmentation_map ==
    /\ pc = "make_segmentation_map"
    /\ trace' = Append(trace, "make_segmentation_map")
    /\ LET catalog == asciidata_open(disk["bright"])
       IN  IF Len(catalog.rows) = 0
           THEN \* hdu_out is assigned inside the loop over positions only
                Raise("UnboundLocalError") /\ UNCHANGED disk
           ELSE /\ disk' = [disk EXCEPT !["seg_map"] =
                               segmentation_map_array(catalog.rows, image.x_dim,
                                                      image.y_dim, enlarge)]
                /\ pc' = "filter_cat_with_segmentation_map"
                /\ UNCHANGED exc
    /\ UNCHANGED <<image, enlarge, filter, catalog_vertex_file, star_galaxy_weights,
                   delete_numbers, manual_vars>>

filter_cat_with_segmentation_map ==
    /\ pc = "filter_cat_with_segmentation_map"
    /\ trace' = Append(trace, "filter_cat_with_segmentation_map")
    /\ LET catalog == asciidata_open(disk["faint"])
           data == disk["seg_map"]
       IN  IF \E j \in 1..Len(catalog.rows) : CentroidOutOfBounds(data, catalog.rows[j])
           THEN Raise("IndexError") /\ UNCHANGED disk
           ELSE /\ disk' = [disk EXCEPT !["filteredfaint"] =
                               RowLines(filter_rows(data, catalog.rows))]
                /\ pc' = "merge"
                /\ UNCHANGED exc
    /\ UNCHANGED <<image, enlarge, filter, catalog_vertex_file, star_galaxy_weights,
                   delete_numbers, manual_vars>>

merge ==
    /\ pc = "merge"
    /\ trace' = Append(trace, "merge")
    /\ disk' = [disk EXCEPT !["merge"] = merge_lines(disk["bright"], disk["filteredfaint"])]
    /\ pc' = "renumber_merged"
    /\ UNCHANGED <<exc, image, enlarge, filter, catalog_vertex_file, star_galaxy_weights,
                   delete_numbers, manual_vars>>

renumber_merged ==
    /\ pc = "renumber_merged"
    /\ trace' = Append(trace, "renumber_merged")
    /\ disk' = [disk EXCEPT !["merge"] = renumber(disk["merge"])]
    /\ pc' = "alter_catalog_for_classification"
    /\ UNCHANGED <<exc, image, enlarge, filter, catalog_vertex_file, star_galaxy_weights,
                   delete_numbers, manual_vars>>

(***************************************************************************)
(* Classification (alter_catalog_for_classification).                      *)
(***************************************************************************)
\* cleanutils.is_below_boundary on fixed-point values (tenths): left of
\* x0 the boundary is the flat segment y0, from x0 on it is the line
\* slope*mag + intercept; strictly below counts.
is_below_boundary(mag, mu, x0, y0, slope, intercept) ==
    IF mag < x0 THEN mu < y0
    ELSE 10 * mu < slope * mag + 10 * intercept

\* The condition of the if without its magnitude test.
is_star_value_no_limit(row, w) ==
    IF is_below_boundary(row.MAG_AUTO + 250, row.MU_MAX, w[1], w[2], w[3], w[4])
    THEN 1 ELSE 0

\* The value written to IS_STAR for a row: the condition of the if.
\* MAG_AUTO + 25 is MAG_AUTO + 250 in tenths.
is_star_value(row, w) ==
    IF /\ is_below_boundary(row.MAG_AUTO + 250, row.MU_MAX, w[1], w[2], w[3], w[4])
       /\ row.MAG_AUTO + 250 < 250
    THEN 1 ELSE 0

classified_rows(rows, w) ==
    [i \in 1..Len(rows) |-> [IS_STAR |-> is_star_value(rows[i], w)] @@ rows[i]]

alter_catalog_for_classification ==
    /\ pc = "alter_catalog_for_classification"
    /\ trace' = Append(trace, "alter_catalog_for_classification")
    /\ LET catalog == asciidata_open(disk["merge"])
       IN  disk' = [disk EXCEPT !["class"] =
                       writeto(Append(catalog.header, <<"#", "IS_STAR">>),
                               classified_rows(catalog.rows, star_galaxy_weights))]
    /\ pc' = "make_SNR"
    /\ UNCHANGED <<exc, image, enlarge, filter, catalog_vertex_file, star_galaxy_weights,
                   delete_numbers, manual_vars>>

(***************************************************************************)
(* Signal to noise (make_SNR).                                             *)
(***************************************************************************)
\* FLUX_AUTO / FLUXERR_AUTO of two Python floats, kept as the exact
\* quotient <<numerator, denominator>>; the caller has excluded a zero divisor.
snr_value(row) == <<row.FLUX_AUTO, row.FLUXERR_AUTO>>

snr_rows(rows) == [i \in 1..Len(rows) |-> [SNR |-> snr_value(rows[i])] @@ rows[i]]

make_SNR ==
    /\ pc = "make_SNR"
    /\ trace' = Append(trace, "make_SNR")
    /\ LET catalog == asciidata_open(disk["class"])
       IN  IF \E i \in 1..Len(catalog.rows) : catalog.rows[i].FLUXERR_AUTO = 0
           THEN \* float division by zero raises; nothing is written
                Raise("ZeroDivisionError") /\ UNCHANGED disk
           ELSE /\ disk' = [disk EXCEPT !["snr"] =
                               writeto(Append(catalog.header, <<"#", "SNR">>),
                                       snr_rows(catalog.rows))]
                /\ pc' = "edge_overlap_clean"
                /\ UNCHANGED exc
    /\ UNCHANGED <<image, enlarge, filter, catalog_vertex_file, star_galaxy_weights,
                   delete_numbers, manual_vars>>

(***************************************************************************)
(* Edge filter (edge_overlap_clean).                                       *)
(***************************************************************************)
A == <<390, 321>>
B == <<498, 6725>>
C == <<6898, 7287>>
D == <<7002, 806>>

\* cleanutils.points_to_line: slope m and intercept b of the line through
\* p and q, kept exact: m = dy/dx, b = c/dx.
points_to_line(p, q) ==
    LET dx == q[1] - p[1]
        dy == q[2] - p[2]
    IN  [dx |-> dx, dy |-> dy, c |-> p[2] * dx - dy * p[1]]

\* v < m*v + b and v > m*v + b for the line l = (m, b), cleared of the
\* denominator dx.
LessThanLine(v, l) ==
    IF l.dx > 0 THEN v * l.dx < l.dy * v + l.c ELSE v * l.dx > l.dy * v + l.c
GreaterThanLine(v, l) ==
    IF l.dx > 0 THEN v * l.dx > l.dy * v + l.c ELSE v * l.dx < l.dy * v + l.c

\* The condition under which edge_overlap_clean copies a row.
edge_keep(row) ==
    LET left == points_to_line(A, B)
        top == points_to_line(B, C)
        right == points_to_line(C, D)
        bottom == points_to_line(D, A)
    IN  /\ LessThanLine(row.XMIN_IMAGE, left)
        /\ LessThanLine(row.XMAX_IMAGE, right)
        /\ GreaterThanLine(row.YMIN_IMAGE, bottom)
        /\ LessThanLine(row.YMAX_IMAGE, top)

\* The "#" lines a stage copies from the head of the old catalog: it stops
\* at the first line that does not start with "#".
RECURSIVE leading_header(_)
leading_header(file) ==
    IF Len(file) = 0 \/ file[1][1] # "#" THEN << >>
    ELSE <<file[1]>> \o leading_header(Tail(file))

edge_rows(rows) ==
    delete_empty_rows([i \in 1..Len(rows) |->
                          IF edge_keep(rows[i]) THEN <<rows[i]>> ELSE << >>])

edge_overlap_clean ==
    /\ pc = "edge_overlap_clean"
    /\ trace' = Append(trace, "edge_overlap_clean")
    /\ LET table_catalog == asciidata_open(disk["snr"])
           new_catalog == RowLines(edge_rows(table_catalog.rows))
       IN  disk' = [disk EXCEPT !["table_edge_clean"] = new_catalog,
                                !["edge"] = leading_header(disk["snr"]) \o new_catalog]
    /\ pc' = "diffraction_mask_cleanup"
    /\ UNCHANGED <<exc, image, enlarge, filter, catalog_vertex_file, star_galaxy_weights,
                   delete_numbers, manual_vars>>

(***************************************************************************)
(* Diffraction spike masking (diffraction_mask_cleanup).                   *)
(***************************************************************************)
\* Spike parameters <<m, b, w, theta>>: m in thousandths, b and w in tenths,
\* theta as <<cos, sin>> of the angle in ten-thousandths
\* (0.0350087, 64.0863, 40.0, 2.614 degrees and 0.0367020, 77.7674, 40.0,
\* 2.180 degrees, rounded to the fixed-point grid).
f606w_spike_params == <<35, 641, 400, <<9990, 456>> >>
f814w_spike_params == <<37, 778, 400, <<9993, 380>> >>

\* __init__: spike_params stays None for any other filter.
spike_params_of(flt) ==
    IF flt = 606 THEN f606w_spike_params
    ELSE IF flt = 814 THEN f814w_spike_params
    ELSE None

\* Default of the mag_cutoff argument, 19.0, in tenths.
mag_cutoff == 190

\* cleanutils.rotate: the vertices turned about (x0, y0) by theta.
rotate(xv, yv, x0, y0, theta) ==
    [xv |-> [i \in 1..Len(xv) |->
                x0 + ((xv[i] - x0) * theta[1] - (yv[i] - y0) * theta[2]) \div 10000],
     yv |-> [i \in 1..Len(yv) |->
                y0 + ((xv[i] - x0) * theta[2] + (yv[i] - y0) * theta[1]) \div 10000]]

\* cleanutils.inpoly: ray casting; the point is inside when a ray from it
\* crosses an odd number of edges.
inpoly(x, y, xv, yv) ==
    LET n == Len(xv)
        prev(i) == IF i = 1 THEN n ELSE i - 1
        crosses(i) ==
            LET j == prev(i)
                dy == yv[j] - yv[i]
            IN  /\ (yv[i] > y) # (yv[j] > y)
                /\ IF dy > 0
                   THEN (x - xv[i]) * dy < (xv[j] - xv[i]) * (y - yv[i])
                   ELSE (x - xv[i]) * dy > (xv[j] - xv[i]) * (y - yv[i])
    IN  Cardinality({i \in 1..n : crosses(i)}) % 2 = 1

\* The stars a mask is made for.
masked_stars(rows) ==
    SelectSeq(rows, LAMBDA row : row.MAG_AUTO + 250 < mag_cutoff /\ row.IS_STAR = 1)

\* The 16 vertices of one star's mask, in tenths of a pixel.
star_mask(row, p) ==
    LET x0 == row.X_IMAGE
        y0 == row.Y_IMAGE
        w == (p[3] * 5) \div 10
        r == (row.A_IMAGE + row.B_IMAGE) \div 2
        l == (p[1] * row.FLUX_AUTO) \div 1000 + p[2]
        xs == <<x0-w, x0-w, x0+w, x0+w, x0+r, x0+l, x0+l, x0+r,
                x0+w, x0+w, x0-w, x0-w, x0-r, x0-l, x0-l, x0-r>>
        ys == <<y0+r, y0+l, y0+l, y0+r, y0+w, y0+w, y0-w, y0-w,
                y0-r, y0-l, y0-l, y0-r, y0-w, y0-w, y0+w, y0+w>>
    IN  rotate(xs, ys, x0, y0, p[4])

vertex_sets(rows, p) ==
    LET stars == masked_stars(rows)
    IN  [i \in 1..Len(stars) |-> star_mask(stars[i], p)]

\* [f(v) for v in range(lo, hi)] as a sequence of the values v.
PyRangeSeq(lo, hi) == [k \in 1..(IF hi > lo THEN hi - lo ELSE 0) |-> lo + k - 1]

\* The pixels sampled for a row: bottom, left, top and right pixel lists.
pixels(row) ==
    LET x_min == row.XMIN_IMAGE
        x_max == row.XMAX_IMAGE
        y_min == row.YMIN_IMAGE
        y_max == row.YMAX_IMAGE
        xs == PyRangeSeq(x_min, x_max)
        ys == PyRangeSeq(y_min, y_max)
        bottom_pixels == [k \in 1..Len(xs) |-> <<xs[k], y_min>>]
        left_pixels == [k \in 1..Len(ys) |-> <<x_min, ys[k]>>]
        top_pixels == [k \in 1..Len(xs) |-> <<xs[k], y_max>>]
        right_pixels == [k \in 1..Len(ys) |-> <<x_max, ys[k]>>]
    IN  bottom_pixels \o left_pixels \o top_pixels \o right_pixels

\* max(bools) == 1 for a row, bools being non-empty: some sampled pixel is
\* inside some mask.  Pixels are whole pixels, masks are in tenths.
in_some_mask(row, masks) ==
    LET sampled == pixels(row)
    IN  \E k \in 1..Len(sampled) : \E j \in 1..Len(masks) :
            inpoly(10 * sampled[k][1], 10 * sampled[k][2], masks[j].xv, masks[j].yv)

\* The loop without the "if is_star == 1: continue".
is_tested_always(row) == TRUE

\* The loop visits this row (it is not skipped as a star).
is_tested(row) == row.IS_STAR # 1

\* max() of an empty list: bools is empty when there is no mask or when the
\* row has no sampled pixel.
bools_empty(row, masks) == Len(masks) = 0 \/ Len(pixels(row)) = 0

\* The NUMBERs appended to delete_numbers, in row order.
marked_numbers(rows, masks) ==
    LET hit == SelectSeq(rows, LAMBDA row : is_tested(row) /\ in_some_mask(row, masks))
    IN  [i \in 1..Len(hit) |-> hit[i].NUMBER]

\* The rows copied to the new table: NUMBER not in delete_numbers.
surviving_rows(rows, numbers) ==
    delete_empty_rows([i \in 1..Len(rows) |->
                          IF rows[i].NUMBER \notin Range(numbers)
                          THEN <<rows[i]>> ELSE << >>])

diffraction_mask_cleanup ==
    /\ pc = "diffraction_mask_cleanup"
    /\ trace' = Append(trace, "diffraction_mask_cleanup")
    /\ LET diff_spike_params == spike_params_of(filter)
           catalog == asciidata_open(disk["edge"])
       IN  IF filter \notin {606, 814}
           THEN \* self.spike_params is None: None[0]
                Raise("TypeError") /\ UNCHANGED <<disk, delete_numbers>>
           ELSE LET masks == vertex_sets(catalog.rows, diff_spike_params)
                IN  IF \E i \in 1..Len(catalog.rows) :
                          is_tested(catalog.rows[i]) /\ bools_empty(catalog.rows[i], masks)
                    THEN \* max([])
                         Raise("ValueError") /\ UNCHANGED <<disk, delete_numbers>>
                    ELSE LET numbers == marked_numbers(catalog.rows, masks)
                             new_catalog == RowLines(surviving_rows(catalog.rows, numbers))
                         IN  /\ delete_numbers' = numbers
                             /\ disk' = [disk EXCEPT
                                    !["diffraction_filter"] = new_catalog,
                                    !["out"] = leading_header(disk["edge"]) \o new_catalog]
                             /\ pc' = "delete_overlap"
                             /\ UNCHANGED exc
    /\ UNCHANGED <<image, enlarge, filter, catalog_vertex_file, star_galaxy_weights,
                   manual_vars>>

(***************************************************************************)
(* Final overlap / null cleanup and renumber (cleanutils).                 *)
(***************************************************************************)
SameBox(r1, r2) ==
    /\ r1.XMIN_IMAGE = r2.XMIN_IMAGE /\ r1.XMAX_IMAGE = r2.XMAX_IMAGE
    /\ r1.YMIN_IMAGE = r2.YMIN_IMAGE /\ r1.YMAX_IMAGE = r2.YMAX_IMAGE

\* cleanutils.delete_overlap: a row whose bounding box repeats that of an
\* earlier row is deleted, in place.
delete_overlap(file) ==
    LET t == asciidata_open(file)
        keep == {i \in 1..Len(t.rows) :
                    ~\E j \in 1..(i - 1) : SameBox(t.rows[j], t.rows[i])}
    IN  writeto(t.header,
                delete_empty_rows([i \in 1..Len(t.rows) |->
                                      IF i \in keep THEN <<t.rows[i]>> ELSE << >>]))

\* cleanutils.delete_null: a row without a valid identifier is deleted, in place.
delete_null(file) ==
    LET t == asciidata_open(file)
    IN  writeto(t.header, SelectSeq(t.rows, LAMBDA row : row.NUMBER >= 1))

delete_overlap_final ==
    /\ pc = "delete_overlap"
    /\ trace' = Append(trace, "delete_overlap")
    /\ disk' = [disk EXCEPT !["out"] = delete_overlap(disk["out"])]
    /\ pc' = "delete_null"
    /\ UNCHANGED <<exc, image, enlarge, filter, catalog_vertex_file, star_galaxy_weights,
                   delete_numbers, manual_vars>>

delete_null_final ==
    /\ pc = "delete_null"
    /\ trace' = Append(trace, "delete_null")
    /\ disk' = [disk EXCEPT !["out"] = delete_null(disk["out"])]
    /\ pc' = "renumber"
    /\ UNCHANGED <<exc, image, enlarge, filter, catalog_vertex_file, star_galaxy_weights,
                   delete_numbers, manual_vars>>

renumber_final ==
    /\ pc = "renumber"
    /\ trace' = Append(trace, "renumber")
    /\ disk' = [disk EXCEPT !["out"] = renumber(disk["out"])]
    /\ pc' = "manual_mask"
    /\ UNCHANGED <<exc, image, enlarge, filter, catalog_vertex_file, star_galaxy_weights,
                   delete_numbers, manual_vars>>

\* "if self.catalog_vertex_file != None: self.manual_mask_catalogs()".
\* manual_mask_catalogs is defined by a def statement at the end of the body
\* of diffraction_mask_cleanup (its line is indented by one tab, which is 8
\* columns), so it is a local function of that method and no attribute of
\* the instance: the call raises AttributeError.
manual_mask_step ==
    /\ pc = "manual_mask"
    /\ IF catalog_vertex_file # None
       THEN Raise("AttributeError")
       ELSE pc' = "done" /\ UNCHANGED exc
    /\ UNCHANGED <<disk, image, enlarge, filter, catalog_vertex_file, star_galaxy_weights,
                   trace, delete_numbers, manual_vars>>

(***************************************************************************)
(* Manual masking (manual_mask_catalogs).                                  *)
(*                                                                         *)
(* A line of the vertex file is the list of its words (line.split()).  A   *)
(* word is <<"#">>, a name <<"w", name>> or a number <<"n", value>>.       *)
(***************************************************************************)
Hash == <<"#">>
Name(s) == <<"w", s>>
Num(n) == <<"n", n>>

\* np.float32 of a numeric word: a float32 holds 24 significant bits, so an
\* integer below 2^24 is kept and a larger one (below 2^25) is rounded to
\* the nearest even integer, ties to the multiple of 4.
np_float32(word) ==
    LET n == word[2]
    IN  IF n <= 16777216 \/ n % 2 = 0 THEN n
        ELSE IF (n + 1) % 4 = 0 THEN n + 1 ELSE n - 1

\* The catalog files a marker line can name.
IsCatalogFile(name) == name \in {"out", "other.cat"} /\ disk[name] # NoFile

\* cleanutils.manual_mask on a catalog file and a polygon in pixels: the rows
\* with a sampled pixel inside the polygon are deleted, the file is
\* rewritten in place and not renumbered.
manual_mask(file, xv, yv) ==
    LET t == asciidata_open(file)
        n == IF Len(xv) < Len(yv) THEN Len(xv) ELSE Len(yv)
        px == SubSeq(xv, 1, n)
        py == SubSeq(yv, 1, n)
        masked(row) == LET sampled == pixels(row)
                       IN  \E k \in 1..Len(sampled) :
                              inpoly(sampled[k][1], sampled[k][2], px, py)
    IN  writeto(t.header, SelectSeq(t.rows, LAMBDA row : ~masked(row)))

\* What a call manual_mask(catalog, xv, yv) can do: fail to open a catalog
\* that is no file; with vertex lists of different lengths either fail or
\* mask with the vertices that pair up; otherwise mask.
manual_mask_outcomes(catalog, xv, yv) ==
    IF ~IsCatalogFile(catalog) THEN {"IOError"}
    ELSE IF Len(xv) # Len(yv) THEN {"IndexError", "ok"}
    ELSE {"ok"}

\* A marker line that leaves the vertices read so far in place.
vertices_after_marker_kept(vertices) == vertices

\* "x_vertices = []" and "y_vertices = []" at a marker line.
vertices_after_marker(vertices) == << >>

\* Entry of manual_mask_catalogs: open the file, initialise the locals.
manual_mask_catalogs ==
    /\ pc = "manual_mask_catalogs"
    /\ current_catalog' = ""
    /\ x_vertices' = << >>
    /\ y_vertices' = << >>
    /\ line_no' = 0
    /\ pc' = IF Len(disk[catalog_vertex_file]) = 0 THEN "done" ELSE "manual_line"
    /\ UNCHANGED <<exc, disk, image, enlarge, filter, catalog_vertex_file,
                   star_galaxy_weights, trace, delete_numbers, calls>>

\* One iteration of "for line in f.readlines()".
manual_line ==
    /\ pc = "manual_line"
    /\ LET lines == disk[catalog_vertex_file]
           split == lines[line_no + 1]
           next_pc == IF line_no + 1 = Len(lines) THEN "done" ELSE "manual_line"
           floats == [i \in 1..Len(split) |-> np_float32(split[i])]
       IN  /\ line_no' = line_no + 1
           /\ IF Len(split) = 0
              THEN \* split[0] of a blank line
                   /\ Raise("IndexError")
                   /\ UNCHANGED <<disk, current_catalog, x_vertices, y_vertices, calls>>
              ELSE IF split[1] = Hash
              THEN /\ current_catalog' = split[2][2]
                   /\ x_vertices' = vertices_after_marker(x_vertices)
                   /\ y_vertices' = vertices_after_marker(y_vertices)
                   /\ pc' = next_pc
                   /\ UNCHANGED <<exc, disk, calls>>
              ELSE IF Len(x_vertices) = 0
              THEN /\ x_vertices' = x_vertices \o floats
                   /\ pc' = next_pc
                   /\ UNCHANGED <<exc, disk, current_catalog, y_vertices, calls>>
              ELSE LET ys == y_vertices \o floats
                   IN  /\ calls' = Append(calls, <<current_catalog, x_vertices, ys>>)
                       /\ \E outcome \in manual_mask_outcomes(current_catalog, x_vertices, ys) :
                             IF outcome = "ok"
                             THEN /\ disk' = [disk EXCEPT ![current_catalog] =
                                                 manual_mask(disk[current_catalog],
                                                             x_vertices, ys)]
                                  /\ x_vertices' = << >>
                                  /\ y_vertices' = << >>
                                  /\ pc' = next_pc
                                  /\ UNCHANGED exc
                             ELSE /\ Raise(outcome)
                                  /\ UNCHANGED <<disk, x_vertices, y_vertices>>
                       /\ UNCHANGED current_catalog
    /\ UNCHANGED <<image, enlarge, filter, catalog_vertex_file, star_galaxy_weights,
                   trace, delete_numbers>>

(***************************************************************************)
(* The run of generate_catalog.                                            *)
(***************************************************************************)
FileNames == {"bright", "faint", "seg_map", "filteredfaint", "merge", "class", "snr",
              "edge", "table_edge_clean", "diffraction_filter", "out", "other.cat",
              "masks.txt"}

EmptyDisk == [n \in FileNames |-> NoFile]

\* Default of make_segmentation_map's enlarge argument.
enlarge_default == 20

\* The class attribute star_galaxy_weights (19.0, -9.8, 0.9, -26.9), in tenths.
default_star_galaxy_weights == <<190, -98, 9, -269>>

\* Detections of the bright pass: a bright star (magnitude 18.0) and a galaxy.
Star1 == Obj(30000, 30000, 50, 30, 2990, 3010, 2990, 3010, -110, -70, 10114, 100)
BrightGal == Obj(50000, 50000, 80, 60, 4980, 5020, 4980, 5020, -50, -50, 5000, 50)
BrightPool == {Star1, BrightGal}

\* Detections of the faint pass.
GalSpike == Obj(30600, 30030, 30, 20, 3055, 3065, 2998, 3008, -50, -30, 200, 20)
GalFar == Obj(10000, 10000, 30, 20, 995, 1005, 995, 1005, -50, -30, 200, 20)
GalEdge == Obj(3950, 10000, 30, 20, 390, 400, 995, 1005, -50, -30, 200, 20)
FaintDup == Obj(30001, 30002, 50, 30, 2991, 3009, 2991, 3009, -110, -70, 9900, 100)
GalZeroErr == Obj(20000, 20000, 30, 20, 1995, 2005, 1995, 2005, -50, -30, 200, 0)
GalPoint == Obj(40000, 40000, 10, 10, 4000, 4000, 4000, 4000, -50, -30, 50, 10)
FaintStar == Obj(30600, 29970, 20, 20, 3057, 3063, 2994, 3000, -100, -50, 300, 30)
GalCorner == Obj(29000, 29740, 20, 20, 2898, 2902, 2972, 2976, -50, -30, 100, 20)
FaintPool == {GalSpike, GalFar, GalEdge, FaintDup, GalZeroErr, GalPoint, FaintStar,
              GalCorner}

\* A vertex file naming the final catalog.
PipelineMasks == << <<Hash, Name("out")>>,
                   <<Num(990), Num(990), Num(1010), Num(1010)>>,
                   <<Num(990), Num(1010), Num(1010), Num(990)>> >>

\* The state at the start of a stage: the files on disk and the run's
\* parameters; nothing has been invoked yet.
StartAt(stage, files, img, margin, flt, vertex_file, weights) ==
    /\ pc = stage
    /\ exc = "none"
    /\ disk = files
    /\ image = img
    /\ enlarge = margin
    /\ filter = flt
    /\ catalog_vertex_file = vertex_file
    /\ star_galaxy_weights = weights
    /\ trace = << >>
    /\ delete_numbers = << >>
    /\ current_catalog = ""
    /\ x_vertices = << >>
    /\ y_vertices = << >>
    /\ line_no = 0
    /\ calls = << >>

MosaicImage == [x_dim |-> 7500, y_dim |-> 7500]

\* generate_catalog from its first stage on: the two SExtractor catalogs are
\* the detections of the two passes.
Init ==
    \E bright \in DistinctSeqs(BrightPool, MaxBright),
       faint \in DistinctSeqs(FaintPool, MaxFaint),
       flt \in {606, 814, 0},
       vertex_file \in {None, "masks.txt"} :
       StartAt("make_segmentation_map",
               [EmptyDisk EXCEPT !["bright"] = run_sextractor(bright),
                                 !["faint"] = run_sextractor(faint),
                                 !["masks.txt"] = PipelineMasks],
               MosaicImage, enlarge_default, flt, vertex_file,
               default_star_galaxy_weights)

Next ==
    \/ make_segmentation_map
    \/ filter_cat_with_segmentation_map
    \/ merge
    \/ renumber_merged
    \/ alter_catalog_for_classification
    \/ make_SNR
    \/ edge_overlap_clean
    \/ diffraction_mask_cleanup
    \/ delete_overlap_final
    \/ delete_null_final
    \/ renumber_final
    \/ manual_mask_step

Spec == Init /\ [][Next]_vars

(***************************************************************************)
(* Properties of the run of generate_catalog (specification Spec).         *)
(***************************************************************************)
Ran(op) == op \in Range(trace)

RowsOf(name) == asciidata_open(disk[name]).rows

\* Every integer pixel on the four edges of a row's bounding box.
Perimeter(row) ==
    {<<x, y>> : x \in row.XMIN_IMAGE..row.XMAX_IMAGE,
                y \in {row.YMIN_IMAGE, row.YMAX_IMAGE}}
    \cup {<<x, y>> : x \in {row.XMIN_IMAGE, row.XMAX_IMAGE},
                     y \in row.YMIN_IMAGE..row.YMAX_IMAGE}

PerimeterInMask(row, masks) ==
    \E px \in Perimeter(row) : \E j \in 1..Len(masks) :
        inpoly(10 * px[1], 10 * px[2], masks[j].xv, masks[j].yv)

\* s is t with some elements left out (relative order kept).
RECURSIVE IsSubseq(_, _)
IsSubseq(s, t) ==
    IF Len(s) = 0 THEN TRUE
    ELSE IF Len(t) = 0 THEN FALSE
    ELSE IF s[1] = t[1] THEN IsSubseq(Tail(s), Tail(t))
    ELSE IsSubseq(s, Tail(t))

DiffractionJustDone == pc = "delete_overlap"

\* C2: once diffraction_mask_cleanup has written its output, a non-star
\* record's identifier is in the deletion list if and only if some integer
\* pixel of the perimeter of its bounding box (four edges, four corners)
\* is inside some mask polygon.
C2_PerimeterDeletionRule ==
    DiffractionJustDone =>
        LET rows == RowsOf("edge")
            masks == vertex_sets(rows, spike_params_of(filter))
        IN  \A i \in 1..Len(rows) :
                rows[i].IS_STAR # 1 =>
                    (rows[i].NUMBER \in Range(delete_numbers)
                        <=> PerimeterInMask(rows[i], masks))

\* C3: when diffraction_mask_cleanup has written its output in a run of the
\* pipeline, every record of its input with IS_STAR = 1 is in the output,
\* and the output is the input with some records left out, order kept.
C3_StarsSurviveMasking ==
    DiffractionJustDone =>
        LET inp == RowsOf("edge")
            out == RowsOf("out")
        IN  /\ \A i \in 1..Len(inp) : inp[i].IS_STAR = 1 => inp[i] \in Range(out)
            /\ IsSubseq(out, inp)

\* C3 witness: the stage has run, it deleted something, and a star whose
\* sampled pixels lie inside a mask is in its input.
C3_Witness ==
    /\ DiffractionJustDone
    /\ Len(delete_numbers) > 0
    /\ LET rows == RowsOf("edge")
           masks == vertex_sets(rows, spike_params_of(filter))
       IN  \E i \in 1..Len(rows) : rows[i].IS_STAR = 1 /\ in_some_mask(rows[i], masks)

\* The operations applied to the final catalog, in the order invoked.
FinalOps ==
    SelectSeq(trace, LAMBDA op : op \in {"diffraction_mask_cleanup", "delete_overlap",
                                         "delete_null", "renumber", "manual_mask_catalogs"})

Finished == pc \in {"done", "error"}

\* C6: in a run of generate_catalog that got as far as the renumber of the
\* final catalog, the operations on the final catalog were diffraction
\* masking, overlap-delete, null-delete, renumber, each once and in this
\* order, followed, when a manual-mask file is supplied, by the manual
\* masking step and by nothing else.
C6_FinalOrder ==
    (Finished /\ Ran("renumber")) =>
        FinalOps = <<"diffraction_mask_cleanup", "delete_overlap", "delete_null", "renumber">>
                   \o (IF catalog_vertex_file # None
                       THEN <<"manual_mask_catalogs">> ELSE << >>)

\* C7: once make_SNR has been invoked, its output exists and holds the
\* records of its input, in order, each with an SNR column: the quotient
\* flux / flux_err, or a sentinel when flux_err is zero.
C7_SNRCompletes ==
    Ran("make_SNR") =>
        /\ disk["snr"] # NoFile
        /\ LET inp == RowsOf("class")
               out == RowsOf("snr")
           IN  /\ Len(out) = Len(inp)
               /\ \A i \in 1..Len(inp) :
                     /\ [f \in DOMAIN inp[i] |-> out[i][f]] = inp[i]
                     /\ inp[i].FLUXERR_AUTO # 0 =>
                            out[i].SNR = <<inp[i].FLUX_AUTO, inp[i].FLUXERR_AUTO>>

\* A non-star record whose bounding box is a single pixel.
IsPointRecord(row) ==
    /\ row.IS_STAR # 1
    /\ row.XMIN_IMAGE = row.XMAX_IMAGE
    /\ row.YMIN_IMAGE = row.YMAX_IMAGE

DiffractionFailed ==
    /\ pc = "error"
    /\ Len(trace) > 0
    /\ trace[Len(trace)] = "diffraction_mask_cleanup"

\* C12: when diffraction_mask_cleanup is given spike parameters and its
\* input generates no mask polygon or holds a non-star record with a
\* single-pixel bounding box, the stage does not end in an error; its
\* output keeps the single-pixel records, and with no mask polygon it holds
\* every input record in the original order.
C12_NoMaskOrPointRecordCompletes ==
    (Ran("diffraction_mask_cleanup") /\ filter \in {606, 814}) =>
        LET rows == RowsOf("edge")
            masks == vertex_sets(rows, spike_params_of(filter))
        IN  (Len(masks) = 0 \/ \E i \in 1..Len(rows) : IsPointRecord(rows[i])) =>
               /\ ~DiffractionFailed
               /\ DiffractionJustDone =>
                     /\ \A i \in 1..Len(rows) :
                           IsPointRecord(rows[i]) => rows[i] \in Range(RowsOf("out"))
                     /\ Len(masks) = 0 => RowsOf("out") = rows

(***************************************************************************)
(* merge on arbitrary catalog files (specification SpecMerge).             *)
(***************************************************************************)
\* The lines a catalog file is made of here: a header line and two rows.
MergeLineVocab == {<<"#", "NUMBER">>,
                   <<" ", [GalFar EXCEPT !.NUMBER = 1]>>,
                   <<" ", [GalSpike EXCEPT !.NUMBER = 2]>>}

InitMerge ==
    \E bright_cat \in SeqsUpTo(MergeLineVocab, MaxLines),
       faint_cat \in SeqsUpTo(MergeLineVocab, MaxLines) :
       StartAt("merge",
               [EmptyDisk EXCEPT !["bright"] = bright_cat,
                                 !["filteredfaint"] = faint_cat],
               MosaicImage, enlarge_default, 606, None, default_star_galaxy_weights)

SpecMerge == InitMerge /\ [][merge]_vars

CountData(file) == Cardinality({i \in 1..Len(file) : file[i][1] # "#"})

\* C1: the file merge writes starts with all lines of the bright catalog in
\* order; what follows holds no line starting with "#", has as many lines
\* as the filtered faint catalog has rows, and its rows are the rows of
\* the filtered faint catalog in order; so the rows of the output are the
\* bright rows followed by the filtered faint rows.
C1_MergeOutput ==
    pc = "renumber_merged" =>
        LET bright_cat == disk["bright"]
            faint_cat == disk["filteredfaint"]
            out == disk["merge"]
            rest == SubSeq(out, Len(bright_cat) + 1, Len(out))
        IN  /\ Len(out) = Len(bright_cat) + CountData(faint_cat)
            /\ SubSeq(out, 1, Len(bright_cat)) = bright_cat
            /\ \A k \in 1..Len(rest) : rest[k][1] # "#"
            /\ asciidata_open(rest).rows = asciidata_open(faint_cat).rows
            /\ asciidata_open(out).rows =
                   asciidata_open(bright_cat).rows \o asciidata_open(faint_cat).rows
            /\ asciidata_open(out).header = asciidata_open(bright_cat).header

\* C1 witness: merge has run on a bright catalog with header and rows and
\* a filtered faint catalog holding both a "#" line and a row.
C1_Witness ==
    /\ pc = "renumber_merged"
    /\ \E i, j \in 1..Len(disk["bright"]) :
          disk["bright"][i][1] = "#" /\ disk["bright"][j][1] # "#"
    /\ \E i, j \in 1..Len(disk["filteredfaint"]) :
          disk["filteredfaint"][i][1] = "#" /\ disk["filteredfaint"][j][1] # "#"

(***************************************************************************)
(* The segmentation filter on small images (specification SpecSeg).        *)
(***************************************************************************)
\* A detection with the given bounding box and centroid; the photometry is
\* that of a plain galaxy.
Detection(x, y, xmin, xmax, ymin, ymax) ==
    Obj(x, y, 30, 20, xmin, xmax, ymin, ymax, -50, -30, 200, 20)

\* Bright detections: boxes of 2 x 2 pixels near the low corner of the image.
SegBrightPool ==
    {Detection(10 * xmin + 10, 10 * ymin + 10, xmin, xmin + 1, ymin, ymin + 1) :
        xmin \in 1..2, ymin \in 1..2}

\* Faint detections: one per pixel of the image, centred in the pixel.
SegFaintPool(img) ==
    {Detection(10 * x + 5, 10 * y + 5, x, x, y, y) :
        x \in 0..(img.x_dim - 1), y \in 0..(img.y_dim - 1)}

InitSeg ==
    \E x_dim \in (MaxDim - 1)..MaxDim, y_dim \in (MaxDim - 1)..MaxDim,
       margin \in 0..MaxEnlarge :
       \E bright \in DistinctSeqs(SegBrightPool, MaxBright),
          faint \in DistinctSeqs(SegFaintPool([x_dim |-> x_dim, y_dim |-> y_dim]),
                                 MaxSegRows) :
          StartAt("make_segmentation_map",
                  [EmptyDisk EXCEPT !["bright"] = run_sextractor(bright),
                                    !["faint"] = run_sextractor(faint)],
                  [x_dim |-> x_dim, y_dim |-> y_dim], margin, 606, None,
                  default_star_galaxy_weights)

NextSeg == make_segmentation_map \/ filter_cat_with_segmentation_map

SpecSeg == InitSeg /\ [][NextSeg]_vars

Max(a, b) == IF a > b THEN a ELSE b
Min(a, b) == IF a < b THEN a ELSE b

\* The pixels of a bright row's bounding box expanded by the margin on all
\* four sides and clipped to the image extent.
DilatedBox(row, margin, img) ==
    {<<x, y>> : x \in Max(row.XMIN_IMAGE - margin, 0)..Min(row.XMAX_IMAGE + margin, img.x_dim - 1),
                y \in Max(row.YMIN_IMAGE - margin, 0)..Min(row.YMAX_IMAGE + margin, img.y_dim - 1)}

CentroidPixel(row) == <<TruncTenths(row.X_IMAGE), TruncTenths(row.Y_IMAGE)>>

\* No faint centroid pixel lies inside any dilated bright box.
DisjointInputs ==
    \A i \in 1..Len(RowsOf("faint")) : \A j \in 1..Len(RowsOf("bright")) :
        CentroidPixel(RowsOf("faint")[i]) \notin DilatedBox(RowsOf("bright")[j], enlarge, image)

\* C4: when both stages have run to completion on inputs where no faint
\* centroid pixel lies inside a dilated, clipped bright box, the filtered
\* catalog holds exactly the faint catalog's rows, in the same order.
C4_DisjointFilterIsIdentity ==
    (pc = "merge" /\ DisjointInputs) => RowsOf("filteredfaint") = RowsOf("faint")

(***************************************************************************)
(* The edge filter on boxes at the field corners (specification SpecEdge). *)
(***************************************************************************)
\* The four boxes of 10 x 10 pixels that have the point p as a corner.
BoxesAt(p) ==
    {<<p[1], p[1] + 10, p[2], p[2] + 10>>, <<p[1], p[1] + 10, p[2] - 10, p[2]>>,
     <<p[1] - 10, p[1], p[2], p[2] + 10>>, <<p[1] - 10, p[1], p[2] - 10, p[2]>>}

\* Boxes at the four field corners, one well inside the field, one inside
\* the bounding rectangle of the field but above its top side, one outside.
EdgeBoxes ==
    BoxesAt(A) \cup BoxesAt(B) \cup BoxesAt(C) \cup BoxesAt(D)
    \cup {<<3000, 3010, 3000, 3010>>, <<6890, 6900, 7300, 7310>>, <<100, 110, 100, 110>>}

EdgePool ==
    {Detection(5 * (bx[1] + bx[2]), 5 * (bx[3] + bx[4]), bx[1], bx[2], bx[3], bx[4]) :
        bx \in EdgeBoxes}

\* The catalog make_SNR writes for the detections objs.
snr_catalog(objs) ==
    LET numbered == asciidata_open(run_sextractor(objs))
    IN  writeto(numbered.header \o <<<<"#", "IS_STAR">>, <<"#", "SNR">>>>,
                snr_rows(classified_rows(numbered.rows, default_star_galaxy_weights)))

InitEdge ==
    \E objs \in DistinctSeqs(EdgePool, MaxEdgeRows) :
       StartAt("edge_overlap_clean",
               [EmptyDisk EXCEPT !["snr"] = snr_catalog(objs)],
               MosaicImage, enlarge_default, 606, None, default_star_galaxy_weights)

SpecEdge == InitEdge /\ [][edge_overlap_clean]_vars

BoxCorners(row) ==
    {<<row.XMIN_IMAGE, row.YMIN_IMAGE>>, <<row.XMIN_IMAGE, row.YMAX_IMAGE>>,
     <<row.XMAX_IMAGE, row.YMIN_IMAGE>>, <<row.XMAX_IMAGE, row.YMAX_IMAGE>>}

EdgeDone == pc = "diffraction_mask_cleanup"

\* C5: once edge_overlap_clean has run, no record of its input that has a
\* bounding-box corner equal to A, B, C or D is in its output.
C5_CornerTouchRejected ==
    EdgeDone =>
        \A i \in 1..Len(RowsOf("snr")) :
            BoxCorners(RowsOf("snr")[i]) \cap {A, B, C, D} # {} =>
                RowsOf("snr")[i] \notin Range(RowsOf("edge"))

\* The point p is inside the convex quadrilateral A, B, C, D (its sides
\* included): on the inner side of each of the four sides, taken in the
\* order A -> B -> C -> D -> A.
InnerSide(p, q, pt) ==
    (q[1] - p[1]) * (pt[2] - p[2]) - (q[2] - p[2]) * (pt[1] - p[1]) <= 0

InsideQuadrilateral(pt) ==
    /\ InnerSide(A, B, pt)
    /\ InnerSide(B, C, pt)
    /\ InnerSide(C, D, pt)
    /\ InnerSide(D, A, pt)

\* C11: once edge_overlap_clean has run, every record of its output has
\* the four corners of its bounding box inside the quadrilateral A, B, C, D.
C11_KeptBoxesInsideField ==
    EdgeDone =>
        \A i \in 1..Len(RowsOf("edge")) :
            \A corner \in BoxCorners(RowsOf("edge")[i]) : InsideQuadrilateral(corner)

(***************************************************************************)
(* Classification over a grid of magnitudes and surface brightnesses       *)
(* (specification SpecClass).                                              *)
(***************************************************************************)
\* MAG_AUTO values: magnitude + 25 = 18.0, 21.0, 24.9, 25.0.
MagGrid == {-70, -40, -1, 0}
\* MU_MAX values around the flat segment (-9.8) and the sloped one.
MuGrid == {-120, -98, -80, -45}

ClassPool ==
    {Obj(10000, 10000, 30, 20, 995, 1005, 995, 1005, mu, mag, 200, 20) :
        mu \in MuGrid, mag \in MagGrid}

\* Boundary parameters: the class default, and a boundary with a later
\* break and a falling slope.
WeightChoices == {default_star_galaxy_weights, <<210, -80, -5, 20>>}

InitClass ==
    \E objs \in DistinctSeqs(ClassPool, MaxClassRows), w \in WeightChoices :
       StartAt("alter_catalog_for_classification",
               [EmptyDisk EXCEPT !["merge"] = run_sextractor(objs)],
               MosaicImage, enlarge_default, 606, None, w)

SpecClass == InitClass /\ [][alter_catalog_for_classification]_vars

ClassDone == pc = "make_SNR"

\* C9: in the classified catalog, of two records with the same magnitude
\* the one with the lower surface brightness is a star whenever the other
\* is, and no record with magnitude + 25 >= 25.0 is a star.
C9_MonotoneBoundary ==
    ClassDone =>
        LET rows == RowsOf("class")
        IN  /\ \A i, j \in 1..Len(rows) :
                  (/\ rows[i].MAG_AUTO = rows[j].MAG_AUTO
                   /\ rows[j].MU_MAX < rows[i].MU_MAX
                   /\ rows[i].IS_STAR = 1) => rows[j].IS_STAR = 1
            /\ \A i \in 1..Len(rows) : rows[i].MAG_AUTO + 250 >= 250 => rows[i].IS_STAR = 0

\* C9 witness: a classified catalog with a star and, at the same magnitude,
\* a record of lower surface brightness, and with a record of magnitude
\* + 25 >= 25.0 that lies below the boundary.
C9_Witness ==
    /\ ClassDone
    /\ \E i, j \in 1..Len(RowsOf("class")) :
          /\ RowsOf("class")[i].MAG_AUTO = RowsOf("class")[j].MAG_AUTO
          /\ RowsOf("class")[j].MU_MAX < RowsOf("class")[i].MU_MAX
          /\ RowsOf("class")[i].IS_STAR = 1
    /\ \E k \in 1..Len(RowsOf("class")) :
          /\ RowsOf("class")[k].MAG_AUTO + 250 >= 250
          /\ is_below_boundary(RowsOf("class")[k].MAG_AUTO + 250, RowsOf("class")[k].MU_MAX,
                               star_galaxy_weights[1], star_galaxy_weights[2],
                               star_galaxy_weights[3], star_galaxy_weights[4])

(***************************************************************************)
(* The body of manual_mask_catalogs on vertex files (specification         *)
(* SpecManual).                                                            *)
(***************************************************************************)
\* Lines of a vertex file: marker lines for two catalogs, the x and y lists
\* of a square around GalFar, and a list of three vertices.
SpecLineVocab ==
    {<<Hash, Name("out")>>, <<Hash, Name("other.cat")>>,
     <<Num(990), Num(990), Num(1010), Num(1010)>>,
     <<Num(990), Num(1010), Num(1010), Num(990)>>,
     <<Num(4975), Num(5025), Num(5000)>>}

InitManual ==
    \E lines \in SeqsUpTo(SpecLineVocab, MaxSpecLines) :
       StartAt("manual_mask_catalogs",
               [EmptyDisk EXCEPT !["out"] = snr_catalog(<<GalFar, BrightGal>>),
                                 !["other.cat"] = snr_catalog(<<BrightGal, GalFar>>),
                                 !["masks.txt"] = lines],
               MosaicImage, enlarge_default, 606, "masks.txt", default_star_galaxy_weights)

NextManual == manual_mask_catalogs \/ manual_line

SpecManual == InitManual /\ [][NextManual]_vars

IsMarker(line) == Len(line) > 0 /\ line[1] = Hash

\* The index of the marker line that opens the block line i belongs to; 0
\* when no marker line precedes line i.
BlockStart(lines, i) ==
    LET markers == {k \in 1..(i - 1) : IsMarker(lines[k])}
    IN  IF markers = {} THEN 0 ELSE CHOOSE k \in markers : \A m \in markers : m <= k

BlockName(lines, i) ==
    IF BlockStart(lines, i) = 0 THEN "" ELSE lines[BlockStart(lines, i)][2][2]

\* Line i is the y-vertex line of a pair: a vertex line at an even position
\* in its block.
IsPairEnd(lines, i) == ~IsMarker(lines[i]) /\ (i - BlockStart(lines, i)) % 2 = 0

Numbers(line) == [k \in 1..Len(line) |-> line[k][2]]

\* One call per pair of consecutive vertex lines of a block, in file order.
ExpectedCalls(lines) ==
    LET ends == SelectSeq([i \in 1..Len(lines) |-> i], LAMBDA i : IsPairEnd(lines, i))
    IN  [k \in 1..Len(ends) |->
            <<BlockName(lines, ends[k]), Numbers(lines[ends[k] - 1]), Numbers(lines[ends[k]])>>]

LinesRead == SubSeq(disk["masks.txt"], 1, line_no)

WellFormedCall(call) == call[1] # "" /\ Len(call[2]) = Len(call[3])

\* C8: the masking routine is never invoked for a malformed entry (vertex
\* lists of different lengths, or no catalog named), and when the function
\* has ended every well-formed pair of the file has been masked.
C8_MalformedEntrySkipped ==
    /\ \A k \in 1..Len(calls) : WellFormedCall(calls[k])
    /\ Finished =>
          \A k \in 1..Len(ExpectedCalls(disk["masks.txt"])) :
              WellFormedCall(ExpectedCalls(disk["masks.txt"])[k]) =>
                  ExpectedCalls(disk["masks.txt"])[k] \in Range(calls)

====
